---- MODULE Spec2Model ----
(***************************************************************************)
(* EzWallet, controllers/users.js: the group and user controllers          *)
(* (createGroup, addToGroup, removeFromGroup, deleteUser, deleteGroup) and *)
(* the e-mail classifier checkGroupEmails they share, over the users,      *)
(* groups and transactions collections.                                    *)
(***************************************************************************)
EXTENDS Integers, Sequences, FiniteSets

VARIABLES
    users,          \* users collection: the e-mails of the registered users
    groups,         \* groups collection: sequence of [name, members], insertion order
    transactions,   \* transactions collection: sequence of the owners' usernames
    pc,             \* "idle": no request is being served; "done": the handler has run
    req,            \* the request served last
    resp,           \* what the handler did with res (status, body)
    log,            \* the storage calls the handler issued, in order
    cls,            \* the value checkGroupEmails returned to the handler
    pre,            \* history: the collections as the request found them
    procs           \* the requests in flight when handlers interleave at their awaits

vars == <<users, groups, transactions, pc, req, resp, log, cls, pre, procs>>

----------------------------------------------------------------------------
(* Bounds and domains *)

\* longest memberEmails array a request carries
MaxLen == 2

\* most transactions in the store at the start
MaxTx == 1

Emails == {"a@x.com", "b@x.com"}
Malformed == "not-an-email"
Candidates == Emails \cup {Malformed}
GroupNames == {"G", "H"}

\* the JavaScript value undefined (an absent body field or parameter, or the
\* value of a block-bodied arrow function without return)
Undefined == "undefined"

RECURSIVE SeqsUpTo(_, _)
SeqsUpTo(S, n) ==
    IF n = 0 THEN {<<>>}
    ELSE LET shorter == SeqsUpTo(S, n - 1)
         IN  shorter \cup {Append(s, x) : s \in {t \in shorter : Len(t) = n - 1}, x \in S}

Range(s) == {s[i] : i \in 1..Len(s)}
NoDup(s) == \A i, j \in 1..Len(s) : i # j => s[i] # s[j]

----------------------------------------------------------------------------
(* Collaborators of utils.js and the models *)

\* utils.js isEmail: the syntactic validator
isEmail(e) == e \in Emails

\* utils.js asyncFilter: results[i] is what the predicate resolved to for
\* arr[i]; keeps, in order, the elements whose result is truthy
asyncFilter(arr, results) ==
    LET kept == SelectSeq([i \in 1..Len(arr) |-> i], LAMBDA i : results[i])
    IN  [k \in 1..Len(kept) |-> arr[kept[k]]]

\* the username of the user registered with an e-mail (its local part)
Username(e) == IF e = "a@x.com" THEN "a" ELSE IF e = "b@x.com" THEN "b" ELSE Undefined

\* User.findOne({ email: e }) is truthy
UserExists(e) == e \in users

\* Group.findOne({ name: n }) is truthy
GroupExists(n) == \E i \in 1..Len(groups) : groups[i].name = n

\* Group.findOne({ 'members.email': e }) is truthy
InAnyGroup(e) == \E i \in 1..Len(groups) : e \in Range(groups[i].members)

\* Group.findOne({ name: n, 'members.email': e }) is truthy
InGroup(n, e) ==
    \E i \in 1..Len(groups) : groups[i].name = n /\ e \in Range(groups[i].members)

\* transactions.find({ username: u }): the stored transactions of that owner
TxFind(u) == SelectSeq(transactions, LAMBDA t : t = u)

\* transactions.deleteMany({ email: e }): what is left of the collection; a
\* transaction is stored under its owner, the user registered with e
TxDeleteMany(e) == SelectSeq(transactions, LAMBDA t : t # Username(e))

----------------------------------------------------------------------------
(* checkGroupEmails *)

\* the arrow functions of the return statement, (email) => { email; }: a
\* block body without return, so every element maps to undefined
DiscardEmail(email) == Undefined

\* array.map((email) => { email; })
MapDiscardEmail(array) == [i \in 1..Len(array) |-> DiscardEmail(array[i])]

\* the three filters: the arrays as they stand before the return statement,
\* and the lookups issued to fill them
Partition(memberEmails, groupName) ==
    LET registered == asyncFilter(memberEmails,
                          [i \in 1..Len(memberEmails) |-> UserExists(memberEmails[i])])
        membersNotFound == SelectSeq(memberEmails, LAMBDA e : ~UserExists(e))
        userLookups == [i \in 1..Len(memberEmails) |-> "User.findOne(email)"]
    IN  IF groupName = Undefined
        THEN [validEmails     |-> asyncFilter(registered,
                  [i \in 1..Len(registered) |-> ~InAnyGroup(registered[i])]),
              alreadyInGroup  |-> SelectSeq(registered, LAMBDA e : InAnyGroup(e)),
              membersNotFound |-> membersNotFound,
              notInGroup      |-> <<>>,
              queries         |-> userLookups \o
                  [i \in 1..Len(registered) |-> "Group.findOne(members.email)"]]
        ELSE [validEmails     |-> asyncFilter(registered,
                  [i \in 1..Len(registered) |-> InGroup(groupName, registered[i])]),
              alreadyInGroup  |-> <<>>,
              membersNotFound |-> membersNotFound,
              notInGroup      |-> SelectSeq(registered, LAMBDA e : ~InGroup(groupName, e)),
              queries         |-> userLookups \o
                  [i \in 1..Len(registered) |-> "Group.findOne(name,members.email)"]]

\* checkGroupEmails with the group lookup left out: every registered candidate
\* is returned as valid, as an object holding its email
checkGroupEmailsWithoutGroupLookup(memberEmails, groupName) ==
    LET p == Partition(memberEmails, groupName)
    IN  [validEmails     |-> SelectSeq(memberEmails, LAMBDA e : UserExists(e)),
         alreadyInGroup  |-> <<>>,
         membersNotFound |-> p.membersNotFound,
         notInGroup      |-> <<>>,
         queries         |-> [i \in 1..Len(memberEmails) |-> "User.findOne(email)"],
         called          |-> TRUE]

checkGroupEmails(memberEmails, groupName) ==
    LET p == Partition(memberEmails, groupName)
    IN  [validEmails     |-> MapDiscardEmail(p.validEmails),
         alreadyInGroup  |-> MapDiscardEmail(p.alreadyInGroup),
         membersNotFound |-> MapDiscardEmail(p.membersNotFound),
         notInGroup      |-> MapDiscardEmail(p.notInGroup),
         queries         |-> p.queries,
         called          |-> TRUE]

\* cls while no classification has been made
NoCls ==
    [validEmails |-> <<>>, alreadyInGroup |-> <<>>, membersNotFound |-> <<>>,
     notInGroup |-> <<>>, queries |-> <<>>, called |-> FALSE]

----------------------------------------------------------------------------
(* Requests and responses *)

\* req.body.memberEmails: absent, or an array
NoMemberEmails == [defined |-> FALSE, list |-> <<>>]
SomeMemberEmails(l) == [defined |-> TRUE, list |-> l]
MemberEmailsValues ==
    {NoMemberEmails} \cup {SomeMemberEmails(l) : l \in SeqsUpTo(Candidates, MaxLen)}

\* a request: the fields a handler reads of req, and what verifyAuth and
\* verifyMultipleAuth answer for it (authGroup: { authType: 'Group' },
\* authAdmin: { authType: 'Admin' }, authUserOrAdmin: ['User', 'Admin'])
Request(op, name, memberEmails, path, email, g, a, m) ==
    [op |-> op, name |-> name, memberEmails |-> memberEmails, path |-> path,
     email |-> email, authGroup |-> g, authAdmin |-> a, authUserOrAdmin |-> m]

NoReq == Request("none", Undefined, NoMemberEmails, <<"">>, Undefined, FALSE, FALSE, FALSE)

NoGroup == [name |-> Undefined, members |-> <<>>]

\* res.status(status).json({ key: ... }); sent counts the bodies sent
Reply(status, key) ==
    [status |-> status, key |-> key, sent |-> 1, group |-> NoGroup,
     alreadyInGroup |-> <<>>, membersNotFound |-> <<>>, notInGroup |-> <<>>,
     deletedTransactionsNumber |-> 0, isRemovedFromGroup |-> FALSE]

\* res.json(...) with no status set: Express answers 200
DefaultStatus == 200

NoResp == [Reply(0, "none") EXCEPT !.sent = 0]

\* what a handler leaves behind
Outcome(r, g, u, t, l, c) ==
    [resp |-> r, groups |-> g, users |-> u, transactions |-> t, log |-> l, cls |-> c]

\* a handler that answered without writing to storage
Answer(r, l, c) == Outcome(r, groups, users, transactions, l, c)

\* validEmails.map(async (e) => ({ email: e.email, user: await User.findOne(...) })):
\* reading e.email of undefined throws a TypeError that rejects Promise.all;
\* an element that is an object is modelled by its email
ResolveMembers(validEmails) ==
    [threw   |-> \E i \in 1..Len(validEmails) : validEmails[i] = Undefined,
     members |-> validEmails,
     queries |-> [i \in 1..Len(SelectSeq(validEmails, LAMBDA e : e # Undefined))
                    |-> "User.findOne(email)"]]

\* req.path, split at '/': /groups/:name/<segment>, or /groups/:name
PathOf(name, segment) ==
    IF segment = "" THEN <<"groups", name>> ELSE <<"groups", name, segment>>

\* req.path.split('/').slice(-1)[0]
LastSegment(path) == path[Len(path)]

----------------------------------------------------------------------------
(* createGroup *)

createGroup(r) ==
    IF r.name = Undefined \/ ~r.memberEmails.defined
    THEN Answer(Reply(401, "message"), <<>>, NoCls)
    ELSE IF ~r.authGroup
    THEN Answer(Reply(401, "error"), <<>>, NoCls)
    ELSE IF GroupExists(r.name)
    THEN Answer(Reply(401, "error"), <<"Group.findOne(name)">>, NoCls)
    ELSE
    LET c == checkGroupEmails(r.memberEmails.list, Undefined)
        m == ResolveMembers(c.validEmails)
        l == <<"Group.findOne(name)">> \o c.queries
        new_group == [name |-> r.name, members |-> m.members]
    IN  IF Len(c.validEmails) = 0
        THEN Answer(Reply(401, "error"), l, c)
        ELSE IF m.threw
        THEN Answer(Reply(500, "error"), l \o m.queries, c)
        ELSE Outcome(
                [Reply(DefaultStatus, "data") EXCEPT
                    !.group = [name |-> new_group.name,
                               members |-> MapDiscardEmail(new_group.members)],
                    !.alreadyInGroup = c.alreadyInGroup,
                    !.membersNotFound = c.membersNotFound],
                Append(groups, new_group), users, transactions,
                l \o m.queries \o <<"Group.save">>, c)

----------------------------------------------------------------------------
(* addToGroup *)

\* Group.updateOne({ name }, { $push: { members: { $each: membersToAdd } } }):
\* the first group of that name gets the members appended
PushMembers(name, membersToAdd) ==
    LET first == CHOOSE i \in 1..Len(groups) :
                    /\ groups[i].name = name
                    /\ \A j \in 1..(i - 1) : groups[j].name # name
    IN  IF GroupExists(name)
        THEN [groups EXCEPT ![first].members = @ \o membersToAdd]
        ELSE groups

\* (await Group.findOne({ name })).members, read in the groups given
MembersOf(gs, name) ==
    LET first == CHOOSE i \in 1..Len(gs) :
                    /\ gs[i].name = name
                    /\ \A j \in 1..(i - 1) : gs[j].name # name
    IN  gs[first].members

\* addToGroup with the classification moved in front of the group lookup
addToGroupClassifyingFirst(r) ==
    IF r.name = Undefined \/ ~r.memberEmails.defined
    THEN Answer(Reply(400, "error"), <<>>, NoCls)
    ELSE IF ~r.authUserOrAdmin
    THEN Answer(Reply(401, "error"), <<>>, NoCls)
    ELSE IF LastSegment(r.path) = "add" /\ ~r.authGroup
    THEN Answer(Reply(401, "error"), <<>>, NoCls)
    ELSE IF LastSegment(r.path) = "insert" /\ ~r.authAdmin
    THEN Answer(Reply(401, "error"), <<>>, NoCls)
    ELSE IF LastSegment(r.path) \notin {"add", "insert"}
    THEN Answer(Reply(400, "error"), <<>>, NoCls)
    ELSE
    LET c == checkGroupEmails(r.memberEmails.list, Undefined)
        m == ResolveMembers(c.validEmails)
        l == c.queries \o <<"Group.findOne(name)">>
        updated == PushMembers(r.name, m.members)
    IN  IF ~GroupExists(r.name)
        THEN Answer(Reply(400, "error"), l, c)
        ELSE IF \E i \in 1..Len(r.memberEmails.list) : ~isEmail(r.memberEmails.list[i])
        THEN Answer(Reply(400, "error"), l, c)
        ELSE IF Len(c.validEmails) = 0
        THEN Answer(Reply(400, "error"), l, c)
        ELSE IF m.threw
        THEN Answer(Reply(500, "error"), l \o m.queries, c)
        ELSE Outcome(
                [Reply(DefaultStatus, "data") EXCEPT
                    !.group = [name |-> r.name,
                               members |-> MapDiscardEmail(MembersOf(updated, r.name))],
                    !.alreadyInGroup = c.alreadyInGroup,
                    !.membersNotFound = c.membersNotFound],
                updated, users, transactions,
                l \o m.queries \o <<"Group.updateOne", "Group.findOne(name)">>, c)

\* addToGroup asking for the Admin capability on add and for Group on insert
addToGroupSwappedCapabilities(r) ==
    IF r.name = Undefined \/ ~r.memberEmails.defined
    THEN Answer(Reply(400, "error"), <<>>, NoCls)
    ELSE IF ~r.authUserOrAdmin
    THEN Answer(Reply(401, "error"), <<>>, NoCls)
    ELSE IF LastSegment(r.path) = "add" /\ ~r.authAdmin
    THEN Answer(Reply(401, "error"), <<>>, NoCls)
    ELSE IF LastSegment(r.path) = "insert" /\ ~r.authGroup
    THEN Answer(Reply(401, "error"), <<>>, NoCls)
    ELSE IF LastSegment(r.path) \notin {"add", "insert"}
    THEN Answer(Reply(400, "error"), <<>>, NoCls)
    ELSE IF ~GroupExists(r.name)
    THEN Answer(Reply(400, "error"), <<"Group.findOne(name)">>, NoCls)
    ELSE IF \E i \in 1..Len(r.memberEmails.list) : ~isEmail(r.memberEmails.list[i])
    THEN Answer(Reply(400, "error"), <<"Group.findOne(name)">>, NoCls)
    ELSE
    LET c == checkGroupEmails(r.memberEmails.list, Undefined)
        m == ResolveMembers(c.validEmails)
        l == <<"Group.findOne(name)">> \o c.queries
        updated == PushMembers(r.name, m.members)
    IN  IF Len(c.validEmails) = 0
        THEN Answer(Reply(400, "error"), l, c)
        ELSE IF m.threw
        THEN Answer(Reply(500, "error"), l \o m.queries, c)
        ELSE Outcome(
                [Reply(DefaultStatus, "data") EXCEPT
                    !.group = [name |-> r.name,
                               members |-> MapDiscardEmail(MembersOf(updated, r.name))],
                    !.alreadyInGroup = c.alreadyInGroup,
                    !.membersNotFound = c.membersNotFound],
                updated, users, transactions,
                l \o m.queries \o <<"Group.updateOne", "Group.findOne(name)">>, c)

addToGroup(r) ==
    IF r.name = Undefined \/ ~r.memberEmails.defined
    THEN Answer(Reply(400, "error"), <<>>, NoCls)
    ELSE IF ~r.authUserOrAdmin
    THEN Answer(Reply(401, "error"), <<>>, NoCls)
    ELSE IF LastSegment(r.path) = "add" /\ ~r.authGroup
    THEN Answer(Reply(401, "error"), <<>>, NoCls)
    ELSE IF LastSegment(r.path) = "insert" /\ ~r.authAdmin
    THEN Answer(Reply(401, "error"), <<>>, NoCls)
    ELSE IF LastSegment(r.path) \notin {"add", "insert"}
    THEN Answer(Reply(400, "error"), <<>>, NoCls)
    ELSE IF ~GroupExists(r.name)
    THEN Answer(Reply(400, "error"), <<"Group.findOne(name)">>, NoCls)
    ELSE IF \E i \in 1..Len(r.memberEmails.list) : ~isEmail(r.memberEmails.list[i])
    THEN Answer(Reply(400, "error"), <<"Group.findOne(name)">>, NoCls)
    ELSE
    LET c == checkGroupEmails(r.memberEmails.list, Undefined)
        m == ResolveMembers(c.validEmails)
        l == <<"Group.findOne(name)">> \o c.queries
        updated == PushMembers(r.name, m.members)
    IN  IF Len(c.validEmails) = 0
        THEN Answer(Reply(400, "error"), l, c)
        ELSE IF m.threw
        THEN Answer(Reply(500, "error"), l \o m.queries, c)
        ELSE Outcome(
                [Reply(DefaultStatus, "data") EXCEPT
                    !.group = [name |-> r.name,
                               members |-> MapDiscardEmail(MembersOf(updated, r.name))],
                    !.alreadyInGroup = c.alreadyInGroup,
                    !.membersNotFound = c.membersNotFound],
                updated, users, transactions,
                l \o m.queries \o <<"Group.updateOne", "Group.findOne(name)">>, c)

----------------------------------------------------------------------------
(* removeFromGroup *)

\* Group.updateOne({ name }, { $pull: { members: { $or: membersToRemove } } }):
\* the first group of that name loses the members that match one of them
PullMembers(name, membersToRemove) ==
    LET first == CHOOSE i \in 1..Len(groups) :
                    /\ groups[i].name = name
                    /\ \A j \in 1..(i - 1) : groups[j].name # name
    IN  IF GroupExists(name)
        THEN [groups EXCEPT ![first].members =
                SelectSeq(@, LAMBDA e : e \notin Range(membersToRemove))]
        ELSE groups

removeFromGroup(r) ==
    IF ~r.memberEmails.defined
    THEN Answer(Reply(401, "error"), <<>>, NoCls)
    ELSE IF LastSegment(r.path) = "remove" /\ ~r.authGroup
    THEN Answer(Reply(401, "error"), <<>>, NoCls)
    ELSE IF LastSegment(r.path) = "pull" /\ ~r.authAdmin
    THEN Answer(Reply(401, "error"), <<>>, NoCls)
    ELSE IF LastSegment(r.path) \notin {"remove", "pull"}
    THEN Answer(Reply(400, "error"), <<>>, NoCls)
    ELSE IF ~GroupExists(r.name)
    THEN Answer(Reply(401, "error"), <<"Group.findOne(name)">>, NoCls)
    ELSE
    LET c == checkGroupEmails(r.memberEmails.list, r.name)
        m == ResolveMembers(c.validEmails)
        l == <<"Group.findOne(name)">> \o c.queries
        updated == PullMembers(r.name, m.members)
    IN  IF Len(c.validEmails) = 0
        THEN Answer(Reply(401, "error"), l, c)
        ELSE IF m.threw
        THEN Answer(Reply(500, "error"), l \o m.queries, c)
        ELSE Outcome(
                [Reply(DefaultStatus, "group") EXCEPT
                    !.group = [name |-> r.name,
                               members |-> MapDiscardEmail(MembersOf(updated, r.name))],
                    !.notInGroup = c.notInGroup,
                    !.membersNotFound = c.membersNotFound],
                updated, users, transactions,
                l \o m.queries \o <<"Group.updateOne", "Group.findOne(name)">>, c)

----------------------------------------------------------------------------
(* deleteUser *)

\* const userGroup = Group.find(): not awaited, so userGroup is the Query and
\* not the array of groups; a Query has no forEach, and the call throws
GroupFindHasForEach == FALSE

\* deleteUser deleting the transactions before it looks the user up
deleteUserDeletingFirst(r) ==
    IF ~r.authAdmin
    THEN Answer(Reply(401, "message"), <<>>, NoCls)
    ELSE IF r.email = Undefined
    THEN Answer(Reply(400, "message"), <<>>, NoCls)
    ELSE IF ~isEmail(r.email)
    THEN Answer(Reply(400, "error"), <<>>, NoCls)
    ELSE IF ~UserExists(r.email)
    THEN Outcome(Reply(400, "message"), groups, users, TxDeleteMany(r.email),
                 <<"transactions.deleteMany", "User.findOne(email)">>, NoCls)
    ELSE Outcome(Reply(500, "raw"), groups, users, TxDeleteMany(r.email),
                 <<"transactions.deleteMany", "User.findOne(email)", "transactions.find",
                   "Group.find">>, NoCls)

deleteUser(r) ==
    IF ~r.authAdmin
    THEN Answer(Reply(401, "message"), <<>>, NoCls)
    ELSE IF r.email = Undefined
    THEN Answer(Reply(400, "message"), <<>>, NoCls)
    ELSE IF ~isEmail(r.email)
    THEN Answer(Reply(400, "error"), <<>>, NoCls)
    ELSE IF ~UserExists(r.email)
    THEN Answer(Reply(400, "message"), <<"User.findOne(email)">>, NoCls)
    ELSE
    LET transactionsNumber == Len(TxFind(Username(r.email)))
        left == TxDeleteMany(r.email)
        l == <<"User.findOne(email)", "transactions.find", "transactions.deleteMany",
               "Group.find">>
    IN  IF ~GroupFindHasForEach \/ InAnyGroup(r.email)
        THEN \* TypeError: forEach is not a function, or assignment to the
             \* constant emailExists
             Outcome(Reply(500, "raw"), groups, users, left, l, NoCls)
        ELSE Outcome(
                [Reply(DefaultStatus, "response") EXCEPT
                    !.deletedTransactionsNumber = transactionsNumber,
                    !.isRemovedFromGroup = FALSE],
                groups, users \ {r.email}, left,
                l \o <<"User.deleteMany">>, NoCls)

----------------------------------------------------------------------------
(* deleteGroup *)

\* Group.deleteMany({ name }): what is left of the collection
GroupDeleteMany(name) == SelectSeq(groups, LAMBDA g : g.name # name)

\* deleteGroup without the Group capability check
deleteGroupWithoutGroupCheck(r) ==
    IF ~r.authAdmin
    THEN Answer(Reply(401, "message"), <<>>, NoCls)
    ELSE IF r.name = Undefined
    THEN Answer(Reply(400, "message"), <<>>, NoCls)
    ELSE IF r.name = ""
    THEN Answer(Reply(400, "message"), <<>>, NoCls)
    ELSE
    LET left == GroupDeleteMany(r.name)
        deletedCount == Len(groups) - Len(left)
    IN  IF deletedCount = 0
        THEN Outcome(Reply(400, "message"), left, users, transactions,
                     <<"Group.deleteMany">>, NoCls)
        ELSE Outcome(Reply(DefaultStatus, "message"), left, users, transactions,
                     <<"Group.deleteMany">>, NoCls)

deleteGroup(r) ==
    IF ~r.authAdmin
    THEN Answer(Reply(401, "message"), <<>>, NoCls)
    ELSE IF r.name = Undefined
    THEN Answer(Reply(400, "message"), <<>>, NoCls)
    ELSE IF r.name = ""
    THEN Answer(Reply(400, "message"), <<>>, NoCls)
    ELSE IF ~r.authGroup
    THEN Answer(Reply(401, "message"), <<>>, NoCls)
    ELSE
    LET left == GroupDeleteMany(r.name)
        deletedCount == Len(groups) - Len(left)
    IN  IF deletedCount = 0
        THEN Outcome(Reply(400, "message"), left, users, transactions,
                     <<"Group.deleteMany">>, NoCls)
        ELSE Outcome(Reply(DefaultStatus, "message"), left, users, transactions,
                     <<"Group.deleteMany">>, NoCls)

----------------------------------------------------------------------------
(* The controllers serving one request at a time *)

\* member lists a stored group can have: no e-mail twice
MemberLists == {m \in SeqsUpTo(Emails, Cardinality(Emails)) : NoDup(m)}

\* the groups collections at the start: names unique, no e-mail in two groups
InitGroups ==
    {<<>>}
    \cup {<<[name |-> n, members |-> m]>> : n \in GroupNames, m \in MemberLists}
    \cup {<<[name |-> "G", members |-> m1], [name |-> "H", members |-> m2]>> :
            <<m1, m2>> \in {p \in MemberLists \X MemberLists :
                                Range(p[1]) \cap Range(p[2]) = {}}}

Usernames == {Username(e) : e \in Emails}

Store == [users |-> users, groups |-> groups, transactions |-> transactions]
NoPre == [users |-> {}, groups |-> <<>>, transactions |-> <<>>]

\* the handlers that may be in flight together
Procs == {1, 2}

\* a request in flight: where its handler is suspended, and the handler's locals
NoProc == [pc |-> "idle", req |-> NoReq, cls |-> NoCls, resp |-> NoResp]
NoProcs == [p \in Procs |-> NoProc]

Init ==
    /\ users \in SUBSET Emails
    /\ groups \in InitGroups
    /\ transactions \in SeqsUpTo(Usernames, MaxTx)
    /\ pc = "idle"
    /\ req = NoReq
    /\ resp = NoResp
    /\ log = <<>>
    /\ cls = NoCls
    /\ pre = NoPre
    /\ procs = NoProcs

\* the handler ran to its response: storage, response, calls and classification
Serve(r, o) ==
    /\ pc' = "done"
    /\ req' = r
    /\ resp' = o.resp
    /\ groups' = o.groups
    /\ users' = o.users
    /\ transactions' = o.transactions
    /\ log' = o.log
    /\ cls' = o.cls
    /\ pre' = Store
    /\ UNCHANGED procs

CreateGroup ==
    /\ pc = "idle"
    /\ \E name \in GroupNames \cup {Undefined, ""}, me \in MemberEmailsValues, g \in BOOLEAN :
        LET r == Request("createGroup", name, me, <<"groups">>, Undefined, g, FALSE, FALSE)
        IN  Serve(r, createGroup(r))

AddToGroup ==
    /\ pc = "idle"
    /\ \E name \in GroupNames \cup {Undefined}, me \in MemberEmailsValues,
       segment \in {"add", "insert", ""}, g \in BOOLEAN, a \in BOOLEAN, m \in BOOLEAN :
        LET r == Request("addToGroup", name, me, PathOf(name, segment), Undefined, g, a, m)
        IN  Serve(r, addToGroup(r))

RemoveFromGroup ==
    /\ pc = "idle"
    /\ \E name \in GroupNames, me \in MemberEmailsValues,
       segment \in {"remove", "pull", ""}, g \in BOOLEAN, a \in BOOLEAN :
        LET r == Request("removeFromGroup", name, me, PathOf(name, segment), Undefined,
                         g, a, FALSE)
        IN  Serve(r, removeFromGroup(r))

DeleteUser ==
    /\ pc = "idle"
    /\ \E email \in Candidates \cup {Undefined}, a \in BOOLEAN :
        LET r == Request("deleteUser", Undefined, NoMemberEmails, <<"users">>, email,
                         FALSE, a, FALSE)
        IN  Serve(r, deleteUser(r))

DeleteGroup ==
    /\ pc = "idle"
    /\ \E name \in GroupNames \cup {Undefined, ""}, g \in BOOLEAN, a \in BOOLEAN :
        LET r == Request("deleteGroup", name, NoMemberEmails, <<"groups">>, Undefined,
                         g, a, FALSE)
        IN  Serve(r, deleteGroup(r))

\* the response is out and the handler has returned: the server is idle again
Finish ==
    /\ pc = "done"
    /\ pc' = "idle"
    /\ req' = NoReq
    /\ resp' = NoResp
    /\ log' = <<>>
    /\ cls' = NoCls
    /\ pre' = NoPre
    /\ UNCHANGED <<users, groups, transactions, procs>>

Next ==
    \/ CreateGroup
    \/ AddToGroup
    \/ RemoveFromGroup
    \/ DeleteUser
    \/ DeleteGroup
    \/ Finish

Spec == Init /\ [][Next]_vars

----------------------------------------------------------------------------
(* The controllers when a storage call rejects *)

\* the mark a rejected storage call leaves at the end of log
Rejected == "rejected"

\* the calls of a run that can reject: all but the Group.find() of deleteUser,
\* which is never awaited and so never executed
Failable(o) == {k \in 1..Len(o.log) : o.log[k] # "Group.find"}

\* new_group.save() and Group.updateOne(...) are not awaited: the handler has
\* returned when they settle, and .catch((err) => { throw err; }) only
\* rejects the chain again
Detached(o, k) ==
    \/ o.log[k] \in {"Group.save", "Group.updateOne"}
    \/ k > 1 /\ o.log[k - 1] = "Group.updateOne"

\* the try/catch of a handler with its catch block left empty
FailedOutcomeSwallowed(r, o, k) ==
    Outcome(NoResp, groups, users, transactions,
            Append(SubSeq(o.log, 1, k), Rejected), NoCls)

\* the run o of the handler of r, but with its k-th storage call rejecting:
\* an awaited call throws into the handler's catch block, which answers 500
\* with the error's message (under the key error, or as the whole body in
\* deleteUser and deleteGroup); the writes made before the call stay
FailedOutcome(r, o, k) ==
    LET issued == Append(SubSeq(o.log, 1, k), Rejected)
        classified == \A j \in k..Len(o.log) : o.log[j] \notin
                        {"User.findOne(email)", "Group.findOne(members.email)",
                         "Group.findOne(name,members.email)"}
        c == IF o.cls.called /\ classified THEN o.cls ELSE NoCls
        key == IF r.op \in {"deleteUser", "deleteGroup"} THEN "raw" ELSE "error"
    IN  IF Detached(o, k)
        THEN Outcome(NoResp,
                     IF o.log[k] \in {"Group.save", "Group.updateOne"} THEN groups ELSE o.groups,
                     users, transactions, issued, c)
        ELSE IF o.log[k] = "User.deleteMany"
        THEN Outcome(Reply(500, key), groups, users, o.transactions, issued, c)
        ELSE Outcome(Reply(500, key), groups, users, transactions, issued, c)

\* getUsers: Admin only, then User.find()
getUsers(r) ==
    IF ~r.authAdmin THEN Answer(Reply(401, "error"), <<>>, NoCls)
    ELSE Answer(Reply(200, "data"), <<"User.find">>, NoCls)

\* getUser: User or Admin, then the user holding the caller's refresh token
\* (r.email is the caller's)
getUser(r) ==
    IF ~r.authUserOrAdmin THEN Answer(Reply(401, "error"), <<>>, NoCls)
    ELSE IF ~UserExists(r.email)
    THEN Answer(Reply(400, "error"), <<"User.findOne(refreshToken)">>, NoCls)
    ELSE Answer(Reply(200, "data"), <<"User.findOne(refreshToken)">>, NoCls)

\* getGroups: Admin only, then Group.find()
getGroups(r) ==
    IF ~r.authAdmin THEN Answer(Reply(401, "message"), <<>>, NoCls)
    ELSE Answer(Reply(200, "data"), <<"Group.find()">>, NoCls)

\* getGroup: User or Admin, then the group of that name
getGroup(r) ==
    IF ~r.authUserOrAdmin THEN Answer(Reply(401, "error"), <<>>, NoCls)
    ELSE IF ~GroupExists(r.name)
    THEN Answer(Reply(400, "error"), <<"Group.findOne(name)">>, NoCls)
    ELSE Answer(Reply(200, "data"), <<"Group.findOne(name)">>, NoCls)

\* the four handlers that only read, with or without a rejecting storage call
ReadOnly ==
    /\ pc = "idle"
    /\ \E op \in {"getUsers", "getUser", "getGroups", "getGroup"}, name \in GroupNames,
          email \in Emails, a \in BOOLEAN, m \in BOOLEAN :
        LET r == Request(op, name, NoMemberEmails, <<op>>, email, FALSE, a, m)
            o == CASE op = "getUsers" -> getUsers(r)
                   [] op = "getUser" -> getUser(r)
                   [] op = "getGroups" -> getGroups(r)
                   [] op = "getGroup" -> getGroup(r)
        IN  \/ Serve(r, o)
            \/ \E k \in Failable(o) : Serve(r, FailedOutcome(r, o, k))

CreateGroupFailing ==
    /\ pc = "idle"
    /\ \E name \in GroupNames \cup {Undefined, ""}, me \in MemberEmailsValues, g \in BOOLEAN :
        LET r == Request("createGroup", name, me, <<"groups">>, Undefined, g, FALSE, FALSE)
            o == createGroup(r)
        IN  \E k \in Failable(o) : Serve(r, FailedOutcome(r, o, k))

AddToGroupFailing ==
    /\ pc = "idle"
    /\ \E name \in GroupNames \cup {Undefined}, me \in MemberEmailsValues,
          segment \in {"add", "insert", ""}, g \in BOOLEAN, a \in BOOLEAN, m \in BOOLEAN :
        LET r == Request("addToGroup", name, me, PathOf(name, segment), Undefined, g, a, m)
            o == addToGroup(r)
        IN  \E k \in Failable(o) : Serve(r, FailedOutcome(r, o, k))

RemoveFromGroupFailing ==
    /\ pc = "idle"
    /\ \E name \in GroupNames, me \in MemberEmailsValues,
          segment \in {"remove", "pull", ""}, g \in BOOLEAN, a \in BOOLEAN :
        LET r == Request("removeFromGroup", name, me, PathOf(name, segment), Undefined,
                         g, a, FALSE)
            o == removeFromGroup(r)
        IN  \E k \in Failable(o) : Serve(r, FailedOutcome(r, o, k))

DeleteUserFailing ==
    /\ pc = "idle"
    /\ \E email \in Candidates \cup {Undefined}, a \in BOOLEAN :
        LET r == Request("deleteUser", Undefined, NoMemberEmails, <<"users">>, email,
                         FALSE, a, FALSE)
            o == deleteUser(r)
        IN  \E k \in Failable(o) : Serve(r, FailedOutcome(r, o, k))

DeleteGroupFailing ==
    /\ pc = "idle"
    /\ \E name \in GroupNames \cup {Undefined, ""}, g \in BOOLEAN, a \in BOOLEAN :
        LET r == Request("deleteGroup", name, NoMemberEmails, <<"groups">>, Undefined,
                         g, a, FALSE)
            o == deleteGroup(r)
        IN  \E k \in Failable(o) : Serve(r, FailedOutcome(r, o, k))

NextFail ==
    \/ Next
    \/ ReadOnly
    \/ CreateGroupFailing
    \/ AddToGroupFailing
    \/ RemoveFromGroupFailing
    \/ DeleteUserFailing
    \/ DeleteGroupFailing

SpecFail == Init /\ [][NextFail]_vars

----------------------------------------------------------------------------
(* createGroup and addToGroup in flight together: a handler yields at its
   awaits, so another handler's storage calls can fall between its group
   lookup, its classification and its write *)

\* longest memberEmails array of a request in flight
MaxConcLen == 1

\* the handler of p runs up to its group lookup; it answers there, or goes on
\* to classify
Begin(p) ==
    /\ procs[p].pc = "idle"
    /\ \E op \in {"createGroup", "addToGroup"}, name \in GroupNames,
          l \in SeqsUpTo(Emails, MaxConcLen) :
        LET r == Request(op, name, SomeMemberEmails(l),
                         IF op = "createGroup" THEN <<"groups">> ELSE PathOf(name, "add"),
                         Undefined, TRUE, TRUE, TRUE)
            o == IF op = "createGroup" THEN createGroup(r) ELSE addToGroup(r)
        IN  procs' = [procs EXCEPT ![p] =
                IF o.cls.called
                THEN [pc |-> "lookedUp", req |-> r, cls |-> NoCls, resp |-> NoResp]
                ELSE [pc |-> "done", req |-> r, cls |-> NoCls, resp |-> o.resp]]
    /\ UNCHANGED <<users, groups, transactions, pc, req, resp, log, cls, pre>>

\* await checkGroupEmails(memberEmails), on the collections as they are now
ClassifyInFlight(p) ==
    /\ procs[p].pc = "lookedUp"
    /\ LET r == procs[p].req
           c == checkGroupEmails(r.memberEmails.list, Undefined)
       IN  procs' = [procs EXCEPT ![p] =
                IF Len(c.validEmails) = 0
                THEN [pc |-> "done", req |-> r, cls |-> c,
                      resp |-> Reply(IF r.op = "createGroup" THEN 401 ELSE 400, "error")]
                ELSE [pc |-> "classified", req |-> r, cls |-> c, resp |-> NoResp]]
    /\ UNCHANGED <<users, groups, transactions, pc, req, resp, log, cls, pre>>

\* the members are resolved and the group is saved or updated, on the
\* collections as they are now
Write(p) ==
    /\ procs[p].pc = "classified"
    /\ LET r == procs[p].req
           c == procs[p].cls
           m == ResolveMembers(c.validEmails)
           written == IF r.op = "createGroup"
                      THEN Append(groups, [name |-> r.name, members |-> m.members])
                      ELSE PushMembers(r.name, m.members)
       IN  IF m.threw
           THEN /\ procs' = [procs EXCEPT ![p] =
                        [pc |-> "done", req |-> r, cls |-> c, resp |-> Reply(500, "error")]]
                /\ UNCHANGED groups
           ELSE /\ procs' = [procs EXCEPT ![p] =
                        [pc |-> "done", req |-> r, cls |-> c,
                         resp |-> [Reply(DefaultStatus, "data") EXCEPT
                                      !.alreadyInGroup = c.alreadyInGroup,
                                      !.membersNotFound = c.membersNotFound]]]
                /\ groups' = written
    /\ UNCHANGED <<users, transactions, pc, req, resp, log, cls, pre>>

InitConc == Init /\ transactions = <<>>

NextConc == \E p \in Procs : Begin(p) \/ ClassifyInFlight(p) \/ Write(p)

SpecConc == InitConc /\ [][NextConc]_vars

----------------------------------------------------------------------------
(* checkGroupEmails on its own: every candidate list, both modes, every store *)

Classify ==
    /\ pc = "idle"
    /\ \E l \in SeqsUpTo(Candidates, MaxLen), groupName \in GroupNames \cup {Undefined} :
        LET c == checkGroupEmails(l, groupName)
        IN  /\ req' = Request("checkGroupEmails", groupName, SomeMemberEmails(l), <<"">>,
                              Undefined, FALSE, FALSE, FALSE)
            /\ cls' = c
            /\ log' = c.queries
    /\ pc' = "done"
    /\ resp' = NoResp
    /\ pre' = Store
    /\ UNCHANGED <<users, groups, transactions, procs>>

NextClassify == Classify \/ Finish

SpecClassify == Init /\ [][NextClassify]_vars

----------------------------------------------------------------------------
(* The classifier's contract *)

\* checkGroupEmails has returned for the candidates req.memberEmails.list
ClassifierRan == pc = "done" /\ req.op = "checkGroupEmails" /\ cls.called

Input == Range(req.memberEmails.list)

PairwiseDisjoint(V, A, N, X) ==
    /\ V \cap A = {} /\ V \cap N = {} /\ V \cap X = {}
    /\ A \cap N = {} /\ A \cap X = {} /\ N \cap X = {}

\* C1: in both modes of checkGroupEmails the four returned sets validEmails,
\* alreadyInGroup, membersNotFound and notInGroup are pairwise disjoint and
\* their union is the set of distinct input emails.
C1_ReturnedSetsPartitionInput ==
    ClassifierRan =>
        /\ PairwiseDisjoint(Range(cls.validEmails), Range(cls.alreadyInGroup),
                            Range(cls.membersNotFound), Range(cls.notInGroup))
        /\ Range(cls.validEmails) \cup Range(cls.alreadyInGroup)
             \cup Range(cls.membersNotFound) \cup Range(cls.notInGroup) = Input

\* C4: a candidate with no matching registered user is returned in
\* membersNotFound and in none of validEmails, alreadyInGroup, notInGroup, and
\* every email of membersNotFound has no matching user.
C4_UnregisteredGoesToMembersNotFound ==
    ClassifierRan =>
        /\ \A e \in Input : ~UserExists(e) =>
              /\ e \in Range(cls.membersNotFound)
              /\ e \notin Range(cls.validEmails) \cup Range(cls.alreadyInGroup)
                            \cup Range(cls.notInGroup)
        /\ \A e \in Range(cls.membersNotFound) : ~UserExists(e)

\* C5: with groupName absent, a registered candidate is returned in
\* alreadyInGroup exactly when some group has it as a member and in validEmails
\* exactly when none has; notInGroup is empty.
C5_AbsentModeSplitsOnAnyGroup ==
    (ClassifierRan /\ req.name = Undefined) =>
        /\ \A e \in Input : UserExists(e) =>
              /\ e \in Range(cls.alreadyInGroup) <=> InAnyGroup(e)
              /\ e \in Range(cls.validEmails) <=> ~InAnyGroup(e)
        /\ cls.notInGroup = <<>>

\* C6: with groupName = G, a registered candidate is returned in validEmails
\* exactly when it is a member of G and in notInGroup when it is a member of
\* another group or of none; alreadyInGroup is empty.
C6_GroupModeSplitsOnThatGroup ==
    (ClassifierRan /\ req.name # Undefined) =>
        /\ \A e \in Input : UserExists(e) =>
              /\ e \in Range(cls.validEmails) <=> InGroup(req.name, e)
              /\ ~InGroup(req.name, e) => e \in Range(cls.notInGroup)
        /\ cls.alreadyInGroup = <<>>

\* The arrays as the filters leave them, before the return statement maps
\* them, do partition the input in the way C1, C4, C5 and C6 describe.
ArraysBeforeReturnPartitionInput ==
    ClassifierRan =>
        LET p == Partition(req.memberEmails.list, req.name)
            V == Range(p.validEmails)
            A == Range(p.alreadyInGroup)
            N == Range(p.membersNotFound)
            X == Range(p.notInGroup)
        IN  /\ PairwiseDisjoint(V, A, N, X)
            /\ V \cup A \cup N \cup X = Input
            /\ N = {e \in Input : ~UserExists(e)}
            /\ req.name = Undefined =>
                  /\ A = {e \in Input : UserExists(e) /\ InAnyGroup(e)}
                  /\ X = {}
            /\ req.name # Undefined =>
                  /\ V = {e \in Input : UserExists(e) /\ InGroup(req.name, e)}
                  /\ A = {}

----------------------------------------------------------------------------
(* The controllers' contracts *)

Served(op) == pc = "done" /\ req.op = op

GroupExistsIn(gs, n) == \E i \in 1..Len(gs) : gs[i].name = n
InAnyGroupIn(gs, e) == \E i \in 1..Len(gs) : e \in Range(gs[i].members)

\* no e-mail is a member of two groups
Exclusive(gs) ==
    \A e \in Candidates :
        Cardinality({i \in 1..Len(gs) : e \in Range(gs[i].members)}) <= 1

UniqueNames(gs) == \A i, j \in 1..Len(gs) : i # j => gs[i].name # gs[j].name

\* the lookups checkGroupEmails issues
ClassificationLookups ==
    {"User.findOne(email)", "Group.findOne(members.email)",
     "Group.findOne(name,members.email)"}

\* C2: after any sequence of createGroup, addToGroup, removeFromGroup,
\* deleteGroup and deleteUser requests served one at a time from a store where
\* no email is in two groups, every email is a member of at most one group.
C2_MembershipExclusive == Exclusive(groups)

\* C2 witness: a request to add a registered user who is a member of another
\* group has been served, and no email is in two groups.
C2_Witness ==
    /\ pc = "done"
    /\ req.op \in {"createGroup", "addToGroup"}
    /\ cls.called
    /\ \E e \in Input :
          UserExists(e) /\ InAnyGroupIn(pre.groups, e) /\ ~InGroup(req.name, e)
    /\ Exclusive(groups)

\* C3: after a createGroup or addToGroup that classified its candidates, a
\* candidate given more than once has yielded no duplicate entry (the
\* classifier's lists hold no more entries than there are distinct
\* candidates), and after one that succeeded the member emails of the affected
\* group are pairwise distinct.
C3_DuplicateCandidateYieldsNoDuplicate ==
    (pc = "done" /\ req.op \in {"createGroup", "addToGroup"} /\ cls.called) =>
        /\ Len(cls.validEmails) + Len(cls.alreadyInGroup) + Len(cls.membersNotFound)
              <= Cardinality(Input)
        /\ resp.status = 200 => NoDup(MembersOf(groups, req.name))

\* the candidates of the request that are registered users in no group
FreshCandidates == {e \in Input : e \in pre.users /\ ~InAnyGroupIn(pre.groups, e)}

\* C7: createGroup by an authorized caller, with a name no group has and a
\* candidate list holding at least one registered user who is in no group,
\* answers 200, persists a group of that name whose members are exactly the
\* valid candidates, and lists exactly those in the response's group.members.
C7_CreateGroupPersistsValidCandidates ==
    (/\ Served("createGroup")
     /\ req.authGroup
     /\ req.name \in GroupNames
     /\ ~GroupExistsIn(pre.groups, req.name)
     /\ req.memberEmails.defined
     /\ FreshCandidates # {}) =>
        /\ resp.status = 200
        /\ \E i \in 1..Len(groups) :
              groups[i].name = req.name /\ Range(groups[i].members) = FreshCandidates
        /\ Range(resp.group.members) = FreshCandidates

\* C8: createGroup with the name of an existing group answers 400, creates no
\* second group of that name and leaves the existing group's members
\* unchanged, so group names stay unique.
C8_ExistingNameIsBadRequest ==
    /\ (/\ Served("createGroup")
        /\ req.authGroup
        /\ req.memberEmails.defined
        /\ GroupExistsIn(pre.groups, req.name)) =>
            resp.status = 400 /\ groups = pre.groups
    /\ UniqueNames(groups)

\* C9: createGroup answers 400 with an error field whenever name is absent,
\* name is the empty string or memberEmails is absent, and creates no group.
C9_MissingParametersAreBadRequest ==
    (/\ Served("createGroup")
     /\ req.name = Undefined \/ req.name = "" \/ ~req.memberEmails.defined) =>
        resp.status = 400 /\ resp.key = "error" /\ groups = pre.groups

AddToGroupUnauthorized ==
    /\ req.name # Undefined
    /\ req.memberEmails.defined
    /\ \/ ~req.authUserOrAdmin
       \/ LastSegment(req.path) = "add" /\ ~req.authGroup
       \/ LastSegment(req.path) = "insert" /\ ~req.authAdmin

C12_WrongSegmentIsBadRequest ==
    (Served("removeFromGroup") /\ LastSegment(req.path) \notin {"remove", "pull"}) =>
        resp.status = 400

\* the caller of removeFromGroup holds the capability its segment asks for
RemoveFromGroupAuthorized ==
    \/ LastSegment(req.path) = "remove" /\ req.authGroup
    \/ LastSegment(req.path) = "pull" /\ req.authAdmin

\* the candidates of the request that are registered members of the named group
MemberCandidates ==
    {e \in Input : e \in pre.users /\ \E i \in 1..Len(pre.groups) :
        pre.groups[i].name = req.name /\ e \in Range(pre.groups[i].members)}

\* C13: a removeFromGroup that has valid candidates succeeds, removes exactly
\* those from the group's member list and leaves every other member and every
\* other group unchanged; the group still exists when they were all its members.
C13_RemoveTakesOutExactlyValidCandidates ==
    (/\ Served("removeFromGroup")
     /\ req.memberEmails.defined
     /\ RemoveFromGroupAuthorized
     /\ GroupExistsIn(pre.groups, req.name)
     /\ MemberCandidates # {}) =>
        /\ resp.status = 200
        /\ Len(groups) = Len(pre.groups)
        /\ \A i \in 1..Len(pre.groups) :
              /\ groups[i].name = pre.groups[i].name
              /\ groups[i].members =
                    IF pre.groups[i].name = req.name
                    THEN SelectSeq(pre.groups[i].members, LAMBDA e : e \notin MemberCandidates)
                    ELSE pre.groups[i].members

\* C14: deleteUser by an Admin on an existing user with N stored transactions
\* answers deletedTransactionsNumber = N, and no transaction of that user
\* remains in storage.
C14_DeleteUserReportsTransactions ==
    (Served("deleteUser") /\ req.authAdmin /\ req.email \in pre.users) =>
        /\ resp.status = 200
        /\ resp.deletedTransactionsNumber =
              Len(SelectSeq(pre.transactions, LAMBDA t : t = Username(req.email)))
        /\ Username(req.email) \notin Range(transactions)

\* C15: after deleteUser by an Admin on an existing user's email the user
\* record is gone, no group has the email among its members, and
\* isRemovedFromGroup is true exactly when the user was a member of a group.
C15_DeleteUserRemovesUserAndMembership ==
    (Served("deleteUser") /\ req.authAdmin /\ req.email \in pre.users) =>
        /\ req.email \notin users
        /\ ~InAnyGroupIn(groups, req.email)
        /\ resp.isRemovedFromGroup = InAnyGroupIn(pre.groups, req.email)

\* the name of a deleteGroup request is present, non-empty and names a group
NamesExistingGroup ==
    req.name \notin {Undefined, ""} /\ GroupExistsIn(pre.groups, req.name)

C17_FailedCallLeavesStorageUnchanged ==
    (/\ pc = "done"
     /\ req.op \in {"createGroup", "addToGroup", "removeFromGroup", "deleteUser",
                     "deleteGroup"}
     /\ resp.status \in {400, 401}) =>
        Store = pre

\* C17 witness: deleteUser by an Admin for a well-formed email that no user
\* has, while transactions are stored under that email's username, was
\* answered 400 and the collections are as before.
C17_Witness ==
    /\ Served("deleteUser")
    /\ req.authAdmin
    /\ isEmail(req.email)
    /\ req.email \notin pre.users
    /\ Username(req.email) \in Range(pre.transactions)
    /\ resp.status = 400
    /\ Store = pre

\* a storage call of the handler served last rejected
StorageCallRejected == log # <<>> /\ log[Len(log)] = Rejected

DoubleMember(e) ==
    \/ Cardinality({i \in 1..Len(groups) : e \in Range(groups[i].members)}) >= 2
    \/ \E i \in 1..Len(groups) :
        Cardinality({j \in 1..Len(groups[i].members) : groups[i].members[j] = e}) >= 2

\* both handlers in flight classified all their candidates, e among them, as
\* valid (registered and in no group), and both have answered
BothAddedAfterClassifying(e) ==
    \A p \in Procs :
        /\ procs[p].pc = "done"
        /\ procs[p].cls.called
        /\ e \in Range(procs[p].req.memberEmails.list)
        /\ Len(procs[p].cls.validEmails) = Len(procs[p].req.memberEmails.list)

\* C19: when two requests that add members run with their storage calls
\* interleaved and both classify the same email as valid before either
\* writes, the email ends up a member of two groups or twice in one group.
C19_InterleavedAddsGiveDoubleMembership ==
    \A e \in Emails : BothAddedAfterClassifying(e) => DoubleMember(e)

\* in flight together or not, createGroup and addToGroup leave the groups as
\* they found them
InterleavedAddsWriteNothing ==
    /\ Exclusive(groups)
    /\ \A e \in Emails : ~DoubleMember(e)
    /\ \A p \in Procs : procs[p].pc = "done" => procs[p].resp.status # 200

====
